---- MODULE Spec2Model ----
(***************************************************************************)
(* A model of the replication-and-query engine of wcpos/query:             *)
(*   - the Manager (coordinator) and its four registries,                  *)
(*   - the QueryReplicationState fetch cycle.                              *)
(* A Query object is kept where the Manager keeps it, in queryStates; a    *)
(* reference to it is <<key, serial>>, the serial telling apart the        *)
(* objects stored under one key.                                           *)
(* Replicator objects live in a heap, replications, and the registries     *)
(* hold references into it.  A reference is <<variant, endpoint, serial>>: *)
(* the two fields a replicator never changes and a serial number that      *)
(* tells apart the objects constructed for one endpoint; <<>> stands for   *)
(* JavaScript's undefined.  A canceled object that no registry refers to   *)
(* can neither act nor be acted on: it is dropped from the heap, as the    *)
(* garbage collector would.                                                *)
(***************************************************************************)
EXTENDS Integers, Sequences, FiniteSets, TLC

\* ------------------------------------------------------------------ bounds
\* Replicator objects alive at one time.
MaxReplications == 4
\* Replicator objects alive at one time under the callers of EnvClash.
MaxClashReplications == 6
\* Clauses in the clause list of one Query.
MaxClauses == 2
\* Hits in a result handed to the result subscription.
MaxHits == 2
\* Managers constructed through getInstance.
MaxManagers == 2
\* run() and fetchUnsynced() invocations of one replicator in flight at one time.
MaxRuns == 3
\* Longest id list getUnsyncedRemoteIDs or getSyncedRemoteIDs answers with.
MaxIds == 2
\* Largest number of documents in one response.
MaxDocs == 1

\* ------------------------------------------------------------------ inputs
\* undefined, as a reference and as a result
None == <<>>
\* the key JSON.stringify yields for an unserializable queryKeys array
Undefined == "undefined"
Keys == {"k1", "k2"}
\* collections of localDB (and of fastLocalDB); "cx" is a name localDB lacks
LocalDB == {"c1", "c2"}
FastLocalDB == {"c1", "c2"}
\* (collectionName, endpoint) arguments of registerQuery
NoEndpoint == <<>>
ConfigDefault == [collectionName |-> "c1", endpoint |-> NoEndpoint]
ConfigAlt == [collectionName |-> "c1", endpoint |-> <<"alt">>]
\* another collection under the endpoint ConfigAlt names
ConfigOther == [collectionName |-> "c2", endpoint |-> <<"alt">>]
\* an endpoint that spells a derived endpoint of ConfigDefault
ConfigDerived == [collectionName |-> "c1", endpoint |-> <<"c1", "s1">>]
\* a collection name localDB lacks
ConfigUnknown == [collectionName |-> "cx", endpoint |-> NoEndpoint]
\* parameter snapshots: one selector field that reaches the API and the uuid
\* selector, which getApiQueryParams drops
ParamsS1 == [sel |-> "s1", uuid |-> "u0"]
ParamsS1U == [sel |-> "s1", uuid |-> "u1"]
ParamsS2 == [sel |-> "s2", uuid |-> "u0"]
\* The callers' alphabets: the queryKeys (two that serialize, "cyclic" makes
\* JSON.stringify throw), configurations and parameter snapshots the callers
\* of one behaviour use.
Environments ==
    { [queryKeys |-> Keys, configs |-> {ConfigDefault},
       params |-> {ParamsS1, ParamsS1U, ParamsS2}],
      [queryKeys |-> Keys, configs |-> {ConfigDefault, ConfigAlt, ConfigOther},
       params |-> {ParamsS1}],
      [queryKeys |-> Keys, configs |-> {ConfigDefault, ConfigDerived},
       params |-> {ParamsS1}],
      [queryKeys |-> {"k1", "cyclic"}, configs |-> {ConfigDefault, ConfigUnknown},
       params |-> {ParamsS1}] }
\* Three callers, one of which names as its endpoint a derived endpoint of
\* the others, and two parameter snapshots with different derived endpoints.
ClashKeys == Keys \cup {"k3"}
\* Callers that keep the Query objects they were given after these are
\* deregistered, and go on changing their parameters.
EnvHeld ==
    [queryKeys |-> Keys, configs |-> {ConfigDefault, ConfigAlt},
     params |-> {ParamsS1, ParamsS2}]
EnvClash ==
    [queryKeys |-> ClashKeys, configs |-> {ConfigDefault, ConfigDerived},
     params |-> {ParamsS1, ParamsS2}]

VARIABLES queryStates, replicationStates, activeCollectionReplications,
          activeQueryReplications, replications, isCanceled,
          errs, ret, op, env

\* One QueryReplicationState under its callers: `replication` holds its
\* fields (subjects.paused, subjects.active, isCanceled, syncCompleted),
\* firstSync whether the owning collection replication's firstSync promise has
\* resolved, procs the position of each run()/fetchUnsynced() invocation in
\* flight, ev the last thing the replicator did.
VARIABLES replication, firstSync, procs, ev

rvars == <<replication, firstSync, procs, ev>>

\* The Manager class under the callers of getInstance: managers holds every
\* Manager constructed so far (its constructor arguments and its state),
\* instance the static field Manager.instance (an index into managers, 0 when
\* unset), iev the last call.
VARIABLES managers, instance, iev

ivars == <<managers, instance, iev>>

\* One Query (evaluator) under its callers, in either revision of
\* query-state.ts: whereClauses and subjectsParams (the value of
\* subjects.params) are its fields, store the documents of its collection,
\* pipe the state of the find$ subscription made by the constructor,
\* subjectsResult the last value of subjects.result, qev the last thing that
\* happened.
VARIABLES revision, whereClauses, subjectsParams, store, pipe, subjectsResult, qev

qvars == <<revision, whereClauses, subjectsParams, store, pipe, subjectsResult, qev>>

\* The result subscription of a Query alone, fed with any results:
\* lastResult holds the last result distinctUntilChanged passed on (none at
\* first), cev what it did with the last candidate.
VARIABLES lastResult, cev

cvars == <<lastResult, cev>>

\* The Query objects deregistered that their callers still hold, by key
\* (the last one under a key).
VARIABLES handles

mvars == <<queryStates, replicationStates, activeCollectionReplications,
           activeQueryReplications, replications, isCanceled,
           errs, ret, op, env, handles>>

\* what the calls on one component leave alone
besidesManager == <<rvars, ivars, qvars, cvars>>
besidesReplication == <<mvars, ivars, qvars, cvars>>
besidesInstance == <<mvars, rvars, qvars, cvars>>
besidesQuery == <<mvars, rvars, ivars, cvars>>
besidesComparator == <<mvars, rvars, ivars, qvars>>

\* ---------------------------------------------------------------- Registry
Has(reg, k) == k \in DOMAIN reg
Get(reg, k) == IF k \in DOMAIN reg THEN reg[k] ELSE None
Set(reg, k, v) == [x \in DOMAIN reg \cup {k} |-> IF x = k THEN v ELSE reg[x]]
Delete(reg, k) == [x \in DOMAIN reg \ {k} |-> reg[x]]
EmptyRegistry == [x \in {} |-> None]
Values(reg) == {reg[k] : k \in DOMAIN reg}

\* --------------------------------------------------------------------- heap
VariantOf(r) == r[1]
EndpointOf(r) == r[2]
\* the reference of the next replicator constructed for an endpoint
NewRef(heap, variant, endpoint) ==
    LET used == {r[3] : r \in {x \in DOMAIN heap :
                                  VariantOf(x) = variant /\ EndpointOf(x) = endpoint}}
        n == CHOOSE i \in 0..Cardinality(used) :
                 i \notin used /\ \A j \in 0..(i - 1) : j \in used
    IN <<variant, endpoint, n>>
Alloc(heap, r, o) == [x \in DOMAIN heap \cup {r} |-> IF x = r THEN o ELSE heap[x]]

\* ----------------------------------------------------------------- Manager
\* The Manager's fields as one record, threaded through its methods.
M == [queryStates |-> queryStates,
      replicationStates |-> replicationStates,
      activeCollectionReplications |-> activeCollectionReplications,
      activeQueryReplications |-> activeQueryReplications,
      replications |-> replications,
      isCanceled |-> isCanceled,
      errs |-> 0]

\* JSON.stringify(queryKeys): a string, or undefined and an error pushed
stringifyFails(queryKeys) == queryKeys \notin ClashKeys
stringify(queryKeys) == IF stringifyFails(queryKeys) THEN Undefined ELSE queryKeys

\* args.endpoint || collectionName
BaseEndpoint(collectionName, endpointArg) ==
    IF endpointArg = NoEndpoint THEN <<collectionName>> ELSE endpointArg

\* getApiQueryParams: every selector field except uuid
getApiQueryParams(params) == params.sel

\* buildEndpointWithParams: the endpoint with the API parameters embedded
buildEndpointWithParams(endpoint, apiQueryParams) == Append(endpoint, apiQueryParams)

\* SubscribableBase.cancel on a heap object: isCanceled, subscriptions torn down
CancelObject(o) == [o EXCEPT !.isCanceled = TRUE]

\* ReplicationState.start / pause: subjects.paused.next(false / true)
StartReplication(m, id) == [m EXCEPT !.replications[id].paused = FALSE]
PauseReplication(m, id) == [m EXCEPT !.replications[id].paused = TRUE]

\* a replicator starts paused
NewReplication(collection) ==
    [collection |-> collection, paused |-> TRUE, isCanceled |-> FALSE]

\* getSyncCollection pushes an error when fastLocalDB lacks the collection
getSyncCollectionErrs(collection) == IF collection \in FastLocalDB THEN 0 ELSE 1

\* as registerCollectionReplication, but a replicator is constructed for
\* every query
registerCollectionReplication_PerQuery(m, collection, endpoint) ==
    LET collectionReplication == NewRef(m.replications, "collection", endpoint)
    IN [m EXCEPT
          !.errs = @ + getSyncCollectionErrs(collection),
          !.replications = Alloc(@, collectionReplication, NewReplication(collection)),
          !.replicationStates = Set(@, endpoint, collectionReplication)]

registerCollectionReplication(m, collection, endpoint) ==
    LET replicationState == Get(m.replicationStates, endpoint)
        m1 == [m EXCEPT !.errs = @ + getSyncCollectionErrs(collection)]
        collectionReplication == NewRef(m.replications, "collection", endpoint)
    IN IF replicationState = None \/ VariantOf(replicationState) # "collection"
       THEN [m1 EXCEPT
               !.replications = Alloc(@, collectionReplication, NewReplication(collection)),
               !.replicationStates = Set(@, endpoint, collectionReplication)]
       ELSE m1

\* as registerQueryReplication, but the registry is not consulted
registerQueryReplication_AlwaysNew(m, collection, queryEndpoint) ==
    LET queryReplication == NewRef(m.replications, "query", queryEndpoint)
    IN [m EXCEPT
          !.replications = Alloc(@, queryReplication, NewReplication(collection)),
          !.replicationStates = Set(@, queryEndpoint, queryReplication)]

registerQueryReplication(m, collection, queryEndpoint) ==
    LET replicationState == Get(m.replicationStates, queryEndpoint)
        queryReplication == NewRef(m.replications, "query", queryEndpoint)
    IN IF replicationState = None \/ VariantOf(replicationState) # "query"
       THEN [m EXCEPT
               !.replications = Alloc(@, queryReplication, NewReplication(collection)),
               !.replicationStates = Set(@, queryEndpoint, queryReplication)]
       ELSE m

getActiveQueryReplicationStatesByEndpoint(m, endpoint) ==
    {k \in DOMAIN m.activeQueryReplications :
        EndpointOf(m.activeQueryReplications[k]) = endpoint}

maybePauseQueryReplications(m, id) ==
    LET activeQueryReplication == m.activeQueryReplications[id]
        matching == getActiveQueryReplicationStatesByEndpoint(
                        m, EndpointOf(activeQueryReplication))
    IN IF Cardinality(matching) = 1
       THEN PauseReplication(m, activeQueryReplication)
       ELSE m

\* the params$ subscriber installed by onNewQueryState, run for the query
\* registered under key on the snapshot params
OnParamsOf(m, query, params) ==
    LET queryEndpoint == buildEndpointWithParams(query.endpoint, getApiQueryParams(params))
        m1 == registerQueryReplication(m, query.collection, queryEndpoint)
        queryReplication == m1.replicationStates[queryEndpoint]
        m2 == IF Has(m1.activeQueryReplications, query.id)
              THEN maybePauseQueryReplications(m1, query.id)
              ELSE m1
        m3 == [m2 EXCEPT !.activeQueryReplications = Set(@, query.id, queryReplication)]
    IN StartReplication(m3, queryReplication)

\* the subscriber run for the query registered under key
OnParams(m, key, params) == OnParamsOf(m, m.queryStates[key], params)

\* onNewQueryState: the query's params$ replays its current snapshot to the
\* new subscriber at once
onNewQueryState(m, key) ==
    LET query == m.queryStates[key]
        m1 == registerCollectionReplication(m, query.collection, query.endpoint)
        collectionReplication == m1.replicationStates[query.endpoint]
        m2 == [m1 EXCEPT !.activeCollectionReplications =
                              Set(@, query.id, collectionReplication)]
        m3 == StartReplication(m2, collectionReplication)
    IN OnParams(m3, key, query.params)

\* getCollection pushes an error when localDB lacks the collection
getCollectionErrs(collectionName) == IF collectionName \in LocalDB THEN 0 ELSE 1

\* new Query(...): params is the snapshot params$ holds, initialParams at first
NewQuery(m, key, collection, endpoint, initialParams) ==
    [id |-> key, collection |-> collection, endpoint |-> endpoint,
     params |-> initialParams, isCanceled |-> FALSE,
     serial |-> IF Has(m.queryStates, key) THEN 1 - m.queryStates[key].serial ELSE 0]

\* the reference to the Query stored under key, undefined if there is none
QueryRef(m, key) == IF Has(m.queryStates, key) THEN <<key, m.queryStates[key].serial>> ELSE None

\* as registerQuery, but without the queryStates.has(key) test
registerQuery_NoDedup(m, queryKeys, collectionName, endpointArg, initialParams) ==
    LET key == stringify(queryKeys)
        endpoint == BaseEndpoint(collectionName, endpointArg)
        m1 == [m EXCEPT !.errs = @ + (IF stringifyFails(queryKeys) THEN 1 ELSE 0)
                                   + getCollectionErrs(collectionName)]
    IN IF collectionName \in LocalDB
       THEN LET queryState == NewQuery(m1, key, collectionName, endpoint, initialParams)
                m2 == [m1 EXCEPT !.queryStates = Set(@, key, queryState)]
            IN onNewQueryState(m2, key)
       ELSE m1

\* registerQuery and registerRelationalQuery: the two differ only in the
\* class of the evaluator constructed
registerQuery(m, queryKeys, collectionName, endpointArg, initialParams) ==
    LET key == stringify(queryKeys)
        endpoint == BaseEndpoint(collectionName, endpointArg)
        m0 == [m EXCEPT !.errs = @ + (IF stringifyFails(queryKeys) THEN 1 ELSE 0)]
    IN IF ~Has(m0.queryStates, key)
       THEN LET m1 == [m0 EXCEPT !.errs = @ + getCollectionErrs(collectionName)]
            IN IF collectionName \in LocalDB
               THEN LET queryState == NewQuery(m1, key, collectionName, endpoint, initialParams)
                        m2 == [m1 EXCEPT !.queryStates = Set(@, key, queryState)]
                    IN onNewQueryState(m2, key)
               ELSE m1
       ELSE m0

\* as deregisterQueryStages, but the query is canceled while still registered
deregisterQueryStages_CancelFirst(m, key) ==
    LET query == Get(m.queryStates, key)
    IN IF query # None
       THEN LET m1 == [m EXCEPT !.queryStates[key] = CancelObject(@)]
                m2 == [m1 EXCEPT
                         !.queryStates = Delete(@, key),
                         !.activeCollectionReplications = Delete(@, key),
                         !.activeQueryReplications = Delete(@, key)]
            IN <<[m |-> m1, query |-> CancelObject(query)],
                 [m |-> m2, query |-> CancelObject(query)]>>
       ELSE <<[m |-> m, query |-> None], [m |-> m, query |-> None]>>

\* as deregisterQueryStages, but the query is not canceled
deregisterQueryStages_NoCancel(m, key) ==
    LET query == Get(m.queryStates, key)
    IN IF query # None
       THEN LET m1 == [m EXCEPT
                         !.queryStates = Delete(@, key),
                         !.activeCollectionReplications = Delete(@, key),
                         !.activeQueryReplications = Delete(@, key)]
            IN <<[m |-> m1, query |-> query], [m |-> m1, query |-> query]>>
       ELSE <<[m |-> m, query |-> None], [m |-> m, query |-> None]>>

\* the Manager and the query of the key, first when query.cancel() is
\* called (after the three deletes), then when it has returned
deregisterQueryStages(m, key) ==
    LET query == Get(m.queryStates, key)
    IN IF query # None
       THEN LET m1 == [m EXCEPT
                         !.queryStates = Delete(@, key),
                         !.activeCollectionReplications = Delete(@, key),
                         !.activeQueryReplications = Delete(@, key)]
            IN <<[m |-> m1, query |-> query],
                 [m |-> m1, query |-> CancelObject(query)]>>
       ELSE <<[m |-> m, query |-> None], [m |-> m, query |-> None]>>

\* the Query removed is canceled last; canceled and out of every registry,
\* it is dropped
deregisterQuery(m, key) == deregisterQueryStages(m, key)[2].m

deregisterReplication(m, endpoint) ==
    LET replicationState == Get(m.replicationStates, endpoint)
    IN IF replicationState # None
       THEN [m EXCEPT
               !.replications[replicationState] = CancelObject(@),
               !.replicationStates = Delete(@, endpoint)]
       ELSE m

RECURSIVE DeregisterReplications(_, _)
DeregisterReplications(m, endpoints) ==
    IF endpoints = {} THEN m
    ELSE LET e == CHOOSE x \in endpoints : TRUE
         IN DeregisterReplications(deregisterReplication(m, e), endpoints \ {e})

RECURSIVE DeregisterQueries(_, _)
DeregisterQueries(m, keys) ==
    IF keys = {} THEN m
    ELSE LET k == CHOOSE x \in keys : TRUE
         IN DeregisterQueries(deregisterQuery(m, k), keys \ {k})

onCollectionReset(m, collection) ==
    LET m1 == DeregisterReplications(m,
                 {e \in DOMAIN m.replicationStates :
                     m.replications[m.replicationStates[e]].collection = collection})
    IN DeregisterQueries(m1,
                 {k \in DOMAIN m1.queryStates : m1.queryStates[k].collection = collection})

\* as cancelStages, but the replications are canceled first and the
\* Manager's own subscriptions last
cancelStages_ReplicationsFirst(m) ==
    LET registeredReplications == Values(m.replicationStates)
        m1 == [m EXCEPT !.replications = [r \in DOMAIN @ |->
                          IF r \in registeredReplications THEN CancelObject(@[r]) ELSE @[r]]]
        m2 == [m1 EXCEPT !.queryStates = [k \in DOMAIN @ |-> CancelObject(@[k])]]
        m3 == [m2 EXCEPT !.isCanceled = TRUE]
    IN <<m1, m2, m3>>

\* the Manager after each of the three statements of Manager.cancel:
\* super.cancel(), queryStates.forEach(cancel), replicationStates.forEach(cancel)
cancelStages(m) ==
    LET registeredReplications == Values(m.replicationStates)
        m1 == [m EXCEPT !.isCanceled = TRUE]
        m2 == [m1 EXCEPT !.queryStates = [k \in DOMAIN @ |-> CancelObject(@[k])]]
        m3 == [m2 EXCEPT !.replications = [r \in DOMAIN @ |->
                          IF r \in registeredReplications THEN CancelObject(@[r]) ELSE @[r]]]
    IN <<m1, m2, m3>>

\* as cancel, but a Manager already canceled reports an error
cancel_ErrorWhenCanceled(m) ==
    [m EXCEPT
       !.errs = @ + (IF m.isCanceled THEN 1 ELSE 0),
       !.isCanceled = TRUE,
       !.queryStates = [k \in DOMAIN @ |-> CancelObject(@[k])],
       !.replications = [r \in DOMAIN @ |->
                       IF r \in Values(m.replicationStates) THEN CancelObject(@[r]) ELSE @[r]]]

\* Manager.cancel: super.cancel(), then every query, then every replication
cancel(m) == cancelStages(m)[3]

\* ----------------------------------------------------------------- actions
\* Each action is one call of a Manager method, or of a Query's mutator, by
\* the callers.  op records the call (its name, its key, whether it found
\* what it looked up, and the query replicator the key had), ret what it
\* returned, errs how many errors it pushed to the error channel.
\* the replicators still referred to by a registry, or not canceled
LiveReplications(m) ==
    {r \in DOMAIN m.replications :
        \/ r \in Values(m.replicationStates)
        \/ r \in Values(m.activeCollectionReplications)
        \/ r \in Values(m.activeQueryReplications)
        \/ ~m.replications[r].isCanceled}

InstallWith(m, name, key, hit, rep, result, held) ==
    /\ handles' = held
    /\ queryStates' = m.queryStates
    /\ replicationStates' = m.replicationStates
    /\ activeCollectionReplications' = m.activeCollectionReplications
    /\ activeQueryReplications' = m.activeQueryReplications
    /\ replications' = [r \in LiveReplications(m) |-> m.replications[r]]
    /\ isCanceled' = m.isCanceled
    /\ errs' = m.errs
    /\ ret' = result
    /\ op' = [name |-> name, key |-> key, hit |-> hit, rep |-> rep]
    /\ env' = env
    /\ UNCHANGED besidesManager

Install(m, name, key, hit, rep, result) ==
    InstallWith(m, name, key, hit, rep, result, handles)

\* what a caller's reference to a deregistered Query gives access to: the
\* fields the Manager's params$ subscriber closes over, and whether the
\* query, and with it the subscription in its subs, is canceled
Handle(query) ==
    [id |-> query.id, collection |-> query.collection, endpoint |-> query.endpoint,
     isCanceled |-> query.isCanceled]

\* the Query objects held once the queries under keys are deregistered
HandlesAfter(keys) ==
    LET left == {k \in keys : Has(queryStates, k)}
    IN IF env = EnvHeld
       THEN [k \in DOMAIN handles \cup left |->
               IF k \in left THEN Handle(deregisterQueryStages(M, k)[2].query)
               ELSE handles[k]]
       ELSE handles

\* the bound on the replicators alive, by the callers of the behaviour
ReplicationsBound == IF env = EnvClash THEN MaxClashReplications ELSE MaxReplications

Register(name) ==
    \E queryKeys \in env.queryKeys, config \in env.configs,
       initialParams \in env.params :
        LET m == registerQuery(M, queryKeys, config.collectionName,
                               config.endpoint, initialParams)
            key == stringify(queryKeys)
        IN /\ Cardinality(LiveReplications(m)) <= ReplicationsBound
           /\ Install(m, name, key, Has(queryStates, key), None, QueryRef(m, key))

RegisterQuery == Register("registerQuery")

RegisterRelationalQuery == Register("registerRelationalQuery")

DeregisterQuery ==
    \E key \in {stringify(queryKeys) : queryKeys \in env.queryKeys} :
        InstallWith(deregisterQuery(M, key), "deregisterQuery", key, Has(queryStates, key),
                    Get(activeQueryReplications, key), None, HandlesAfter({key}))

OnCollectionReset ==
    \E collection \in LocalDB :
        InstallWith(onCollectionReset(M, collection), "onCollectionReset", collection, FALSE,
                    None, None,
                    HandlesAfter({k \in DOMAIN queryStates :
                                     queryStates[k].collection = collection}))

\* where / sort / search on a Query object that was deregistered: the
\* snapshot reaches the Manager's subscriber only if the subscription in the
\* query's subs is still alive
UpdateParamsDetached ==
    \E key \in DOMAIN handles, params \in env.params :
        LET query == handles[key]
            delivered == ~query.isCanceled
            m == IF delivered THEN OnParamsOf(M, query, params) ELSE M
        IN /\ Cardinality(LiveReplications(m)) <= ReplicationsBound
           /\ Install(m, "updateParamsDetached", key, delivered,
                      Get(activeQueryReplications, key), None)

Cancel == Install(cancel(M), "cancel", "", isCanceled, None, None)

\* where / sort / search on a Query object: subjects.params.next(newParams).
\* params$ (distinctUntilChanged) hands the snapshot to the Manager's
\* subscriber only when it differs from the last one handed over and the
\* query's subscriptions are still alive; the params field is that last one.
UpdateParams ==
    \E key \in DOMAIN queryStates, params \in env.params :
        LET query == queryStates[key]
            delivered == ~query.isCanceled /\ params # query.params
            m == IF delivered
                 THEN OnParams([M EXCEPT !.queryStates[key].params = params], key, params)
                 ELSE M
        IN /\ Cardinality(LiveReplications(m)) <= ReplicationsBound
           /\ Install(m, "updateParams", key, delivered,
                      Get(activeQueryReplications, key), None)

\* new Manager(...)
MFresh ==
    /\ queryStates = EmptyRegistry
    /\ handles = EmptyRegistry
    /\ replicationStates = [x \in {} |-> None]
    /\ activeCollectionReplications = EmptyRegistry
    /\ activeQueryReplications = EmptyRegistry
    /\ replications = [r \in {} |-> None]
    /\ isCanceled = FALSE
    /\ errs = 0
    /\ ret = None
    /\ op = [name |-> "new", key |-> "", hit |-> FALSE, rep |-> None]

MInit ==
    /\ MFresh
    /\ env \in Environments

\* ------------------------------------------------------ Manager.getInstance
Databases == {"db1", "db2"}
FastDatabases == {"fast1", "fast2"}
HttpClients == {"http1", "http2"}
Locales == {"en", "fr"}

\* the Manager its constructor leaves
NewManager(localDB, fastLocalDB, httpClient, locale) ==
    [localDB |-> localDB, fastLocalDB |-> fastLocalDB,
     httpClient |-> httpClient, locale |-> locale,
     m |-> [queryStates |-> EmptyRegistry,
            replicationStates |-> [x \in {} |-> None],
            activeCollectionReplications |-> EmptyRegistry,
            activeQueryReplications |-> EmptyRegistry,
            replications |-> [r \in {} |-> None],
            isCanceled |-> FALSE,
            errs |-> 0]]

Class == [managers |-> managers, instance |-> instance]

\* getInstance's test: an instance exists and its dependencies are the same
sameDependencies(c, localDB, fastLocalDB, locale) ==
    /\ c.instance # 0
    /\ c.managers[c.instance].localDB = localDB
    /\ c.managers[c.instance].fastLocalDB = fastLocalDB
    /\ c.managers[c.instance].locale = locale

\* as getInstance, but the instance replaced is not canceled
getInstance_NoCancel(c, localDB, fastLocalDB, httpClient, locale) ==
    IF sameDependencies(c, localDB, fastLocalDB, locale)
    THEN c
    ELSE LET created == Append(c.managers, NewManager(localDB, fastLocalDB, httpClient, locale))
         IN [managers |-> created, instance |-> Len(created)]

getInstance(c, localDB, fastLocalDB, httpClient, locale) ==
    IF sameDependencies(c, localDB, fastLocalDB, locale)
    THEN c
    ELSE LET c1 == IF c.instance # 0
                   THEN [c EXCEPT !.managers[c.instance].m = cancel(@)]
                   ELSE c
             created == Append(c1.managers, NewManager(localDB, fastLocalDB, httpClient, locale))
         IN [managers |-> created, instance |-> Len(created)]

GetInstance ==
    \E localDB \in Databases, fastLocalDB \in FastDatabases,
       httpClient \in HttpClients, locale \in Locales :
        LET c == getInstance(Class, localDB, fastLocalDB, httpClient, locale)
        IN /\ Len(c.managers) <= MaxManagers
           /\ managers' = c.managers
           /\ instance' = c.instance
           /\ iev' = [name |-> "getInstance", ret |-> c.instance,
                      same |-> sameDependencies(Class, localDB, fastLocalDB, locale)]
           /\ UNCHANGED besidesInstance

\* cancel() called on a Manager the callers hold
ManagerCancel ==
    \E i \in DOMAIN managers :
        /\ managers' = [managers EXCEPT ![i].m = cancel(@)]
        /\ iev' = [name |-> "cancel", ret |-> 0, same |-> FALSE]
        /\ UNCHANGED <<instance, besidesInstance>>

\* the database runs its onDestroy callbacks: each Manager constructed on it
\* registered () => this.cancel()
OnDestroy ==
    \E localDB \in Databases :
        /\ managers' = [i \in DOMAIN managers |->
                          IF managers[i].localDB = localDB
                          THEN [managers[i] EXCEPT !.m = cancel(@)]
                          ELSE managers[i]]
        /\ iev' = [name |-> "onDestroy", ret |-> 0, same |-> FALSE]
        /\ UNCHANGED <<instance, besidesInstance>>

IInit ==
    /\ managers = <<>>
    /\ instance = 0
    /\ iev = [name |-> "new", ret |-> 0, same |-> FALSE]

\* -------------------------------------------------------------------- Query
\* the two revisions of the Query class
Older == "src/query-state.ts"
Newer == "part_000"
Revisions == {Older, Newer}

\* documents: primary key (and uuid), the rank of `name` in natural order,
\* and the two fields that selectors test
Documents ==
    { [id |-> 1, name |-> 3, cat |-> "x", attributes |-> "$allMatch[Blue]"],
      [id |-> 2, name |-> 1, cat |-> "x", attributes |-> "$allMatch[Red]"],
      [id |-> 3, name |-> 2, cat |-> "y", attributes |-> "$allMatch[Blue]"] }
\* the documents that enter and leave the collection
Volatile == {doc \in Documents : doc.id = 1}
Fields == {"cat", "attributes"}
Null == "null"
WhereValues == {"y", Null}
Attributes == {"Blue", "Red"}
AllMatch(option) == IF option = "Blue" THEN "$allMatch[Blue]" ELSE "$allMatch[Red]"
SearchTerms == {"", "milk"}
\* the search subsystem's ranked list of ids; 9 is in no store
Ranked(term) == IF term = "milk" THEN <<3, 9, 1, 2>> ELSE <<>>

Clause(field, value) == [field |-> field, value |-> value]
SelectSeq2(seq, keep(_, _)) ==
    LET F[i \in 0..Len(seq)] ==
            IF i = 0 THEN <<>>
            ELSE IF keep(i, seq[i]) THEN Append(F[i - 1], seq[i]) ELSE F[i - 1]
    IN F[Len(seq)]
FieldsOf(clauses) == {clauses[i].field : i \in DOMAIN clauses}

\* normalizeWhereClauses: of the clauses of one field the last is kept, and
\* a clause with value null or undefined is removed
normalizeWhereClauses(clauses) ==
    LET Kept(i, clause) ==
            /\ clause.value # Null
            /\ \A j \in DOMAIN clauses : j > i => clauses[j].field # clause.field
    IN SelectSeq2(clauses, Kept)

\* as where, but the clause is appended also when the field has one
where_Append(clauses, field, value) ==
    IF revision = Older
    THEN IF value = Null
         THEN SelectSeq2(clauses, LAMBDA i, clause : clause.field # field)
         ELSE Append(clauses, Clause(field, value))
    ELSE Append(clauses, Clause(field, value))

\* where(field, value) up to its updateParams call: the clause list it leaves
where(clauses, field, value) ==
    IF revision = Older
    THEN IF value = Null
         THEN SelectSeq2(clauses, LAMBDA i, clause : clause.field # field)
         ELSE IF field \in FieldsOf(clauses)
              THEN LET first == CHOOSE i \in DOMAIN clauses :
                                   /\ clauses[i].field = field
                                   /\ \A j \in 1..(i - 1) : clauses[j].field # field
                   IN [clauses EXCEPT ![first].value = value]
              ELSE Append(clauses, Clause(field, value))
    ELSE normalizeWhereClauses(Append(clauses, Clause(field, value)))

\* the selector updateParams builds from the clause list: in the older
\* revision an object (one key per field, in order of first appearance, the
\* last clause of a field winning), in the newer { $and: clauses } or {}
SelectorOf(clauses) ==
    IF revision = Older
    THEN LET First(i, clause) == \A j \in 1..(i - 1) : clauses[j].field # clause.field
             Last(field) == CHOOSE i \in DOMAIN clauses :
                               /\ clauses[i].field = field
                               /\ \A j \in DOMAIN clauses : j > i => clauses[j].field # field
             firsts == SelectSeq2(clauses, First)
         IN [i \in DOMAIN firsts |-> Clause(firsts[i].field, clauses[Last(firsts[i].field)].value)]
    ELSE clauses

\* updateParams(additionalParams): the snapshot pushed to subjects.params
updateParams(clauses, currentParams, additionalParams) ==
    [k \in DOMAIN currentParams |->
        IF k = "selector" THEN SelectorOf(clauses)
        ELSE IF k \in DOMAIN additionalParams THEN additionalParams[k]
        ELSE currentParams[k]]

\* collection.find({ selector }): the stored documents every clause accepts
find(documents, selector) ==
    {doc \in documents : \A i \in DOMAIN selector : doc[selector[i].field] = selector[i].value}

\* the ids of a set of documents as a list ordered by `key`
RECURSIVE orderBy(_, _, _)
orderBy(documents, key, direction) ==
    IF documents = {} THEN <<>>
    ELSE LET head == CHOOSE doc \in documents : \A other \in documents :
                        IF direction = "desc" THEN doc[key] >= other[key]
                        ELSE doc[key] <= other[key]
         IN <<head.id>> \o orderBy(documents \ {head}, key, direction)

QueryResult(searchActive, searchTerm, hits) ==
    [searchActive |-> searchActive, searchTerm |-> searchTerm, hits |-> hits]

\* as handleSearchActive, but the hits are ordered as the query sorts
handleSearchActive_Sorted(modifiedParams, documents) ==
    LET uuids == Ranked(modifiedParams.search)
        docs == {doc \in find(documents, modifiedParams.selector) :
                    \E i \in DOMAIN uuids : uuids[i] = doc.id}
    IN QueryResult(TRUE, modifiedParams.search, orderBy(docs, "name", "asc"))

\* handleSearchActive: the ranked ids that the store query finds, in ranked order
handleSearchActive(modifiedParams, documents) ==
    LET uuids == Ranked(modifiedParams.search)
        docs == find(documents, modifiedParams.selector)
        Found(i, uuid) == \E doc \in docs : doc.id = uuid
    IN QueryResult(TRUE, modifiedParams.search, SelectSeq2(uuids, Found))

handleSearchInactive(modifiedParams, documents) ==
    LET docs == find(documents, modifiedParams.selector)
    IN QueryResult(FALSE, Undefined,
          IF modifiedParams.sortBy # Undefined /\ modifiedParams.sortDirection # Undefined
          THEN orderBy(docs, modifiedParams.sortBy, modifiedParams.sortDirection)
          ELSE orderBy(docs, "id", "asc"))

\* what one evaluation of find$ yields for a parameter snapshot
Evaluate(snapshot, documents) ==
    IF snapshot.search # Undefined /\ snapshot.search # ""
    THEN handleSearchActive(snapshot, documents)
    ELSE handleSearchInactive(snapshot, documents)

\* a hit as the evaluation yields it: in the newer revision { id, document },
\* in the older one the hit of the search service (its score and lineage
\* taken as fixed for an id) with the document
HitOf(id) ==
    [id |-> id, score |-> 0, parentSearchTerm |-> Undefined, childrenSearchCount |-> 0]

\* the results any find$ could emit: the hits of id 1 differ in one of
\* score, parentSearchTerm and childrenSearchCount
Hits ==
    { HitOf(1), HitOf(2),
      [HitOf(1) EXCEPT !.score = 1],
      [HitOf(1) EXCEPT !.parentSearchTerm = "milk"],
      [HitOf(1) EXCEPT !.childrenSearchCount = 1] }
HitLists == UNION {[1..n -> Hits] : n \in 0..MaxHits}
Results ==
    {[searchActive |-> FALSE, searchTerm |-> Undefined, hits |-> hits] : hits \in HitLists}
    \cup {[searchActive |-> TRUE, searchTerm |-> term, hits |-> hits] :
             term \in {"milk", "tea"}, hits \in HitLists}

\* as comparator, but without the look at score and lineage
comparator_IdsOnly(prev, next) ==
    IF prev.searchActive # next.searchActive \/ prev.searchTerm # next.searchTerm
    THEN FALSE
    ELSE [i \in DOMAIN prev.hits |-> prev.hits[i].id]
           = [i \in DOMAIN next.hits |-> next.hits[i].id]

\* the comparator handed to distinctUntilChanged on find$
comparator(prev, next) ==
    IF prev.searchActive # next.searchActive \/ prev.searchTerm # next.searchTerm
    THEN FALSE
    ELSE LET idsAreEqual == [i \in DOMAIN prev.hits |-> prev.hits[i].id]
                              = [i \in DOMAIN next.hits |-> next.hits[i].id]
             childrenAreEqual ==
                 IF idsAreEqual /\ next.searchActive
                 THEN \A index \in DOMAIN prev.hits :
                        LET hit == prev.hits[index]
                            nextHit == next.hits[index]
                        IN /\ hit.parentSearchTerm = nextHit.parentSearchTerm
                           /\ hit.childrenSearchCount = nextHit.childrenSearchCount
                           /\ hit.score = nextHit.score
                 ELSE TRUE
         IN idsAreEqual /\ childrenAreEqual

\* distinctUntilChanged(comparator): what it holds as the last result passed
\* on, after the candidate next
distinctUntilChanged(last, next) ==
    IF last = <<>> \/ ~comparator(last[1], next) THEN <<next>> ELSE last

\* find$ emits a candidate
FindEmits ==
    \E next \in Results :
        /\ lastResult' = distinctUntilChanged(lastResult, next)
        /\ cev' = IF lastResult' = lastResult THEN "suppressed" ELSE "published"
        /\ UNCHANGED besidesComparator

CInit ==
    /\ lastResult = <<>>
    /\ cev = "new"

\* as resultsEqual, but no two results are taken for equal
resultsEqual_Never(prev, next) == FALSE

\* the comparator on two results of the evaluation
resultsEqual(prev, next) ==
    LET WithHits(result) == [result EXCEPT !.hits = [i \in DOMAIN @ |-> HitOf(@[i])]]
    IN comparator(WithHits(prev), WithHits(next))

\* as switchMap, but the evaluation in flight is left to finish (exhaustMap)
switchMap_Exhaust(inner, snapshot, cause) ==
    IF inner.status = "evaluating" THEN inner
    ELSE [status |-> "evaluating", cause |-> cause, snapshot |-> <<snapshot>>]

\* switchMap in find$: the inner observable of the snapshot before is
\* unsubscribed, and one for the new snapshot is subscribed
switchMap(inner, snapshot, cause) ==
    [status |-> "evaluating", cause |-> cause, snapshot |-> <<snapshot>>]

\* subjects.params.next(snapshot): params$ feeds switchMap, which drops the
\* evaluation in flight and starts one for the snapshot; in the newer
\* revision params$ passes only a snapshot whose JSON differs from the last
Push(clauses, snapshot, kind, field, value) ==
    LET same == snapshot = subjectsParams
        emitted == revision = Older \/ ~same
    IN /\ whereClauses' = clauses
       /\ subjectsParams' = snapshot
       /\ pipe' = IF pipe.status = "dead" \/ ~emitted THEN pipe
                  ELSE switchMap(pipe, snapshot,
                                 IF ~same THEN "params"
                                 ELSE IF pipe.status = "idle" THEN "same"
                                 ELSE pipe.cause)
       /\ qev' = [kind |-> kind, field |-> field, value |-> value]
       /\ UNCHANGED <<revision, store, subjectsResult, besidesQuery>>

Where ==
    \E field \in Fields, value \in WhereValues :
        LET clauses == where(whereClauses, field, value)
        IN Push(clauses, updateParams(clauses, subjectsParams, <<>>), "where", field, value)

Sort ==
    \E sortDirection \in {"asc", "desc"} :
        Push(whereClauses,
             updateParams(whereClauses, subjectsParams,
                          [sortBy |-> "name", sortDirection |-> sortDirection]),
             "sort", "name", sortDirection)

Search ==
    \E query \in SearchTerms :
        Push(whereClauses,
             updateParams(whereClauses, subjectsParams, [search |-> query]),
             "search", "search", query)

\* updateVariationAttributeSelector (older revision): the $allMatch array
\* of the current selector is updated in place, and it is the array of the
\* clause the selector was built from; a clause is pushed without a look at
\* the list
UpdateVariationAttributeSelector ==
    \E option \in Attributes :
        /\ revision = Older
        /\ Len(whereClauses) < MaxClauses
        /\ LET inSelector == {i \in DOMAIN whereClauses :
                                /\ whereClauses[i].field = "attributes"
                                /\ whereClauses[i].value \in {AllMatch(a) : a \in Attributes}
                                /\ \A j \in DOMAIN whereClauses :
                                      j > i => whereClauses[j].field # "attributes"}
               mutated == [i \in DOMAIN whereClauses |->
                             IF i \in inSelector
                             THEN Clause("attributes", AllMatch(option))
                             ELSE whereClauses[i]]
               clauses == Append(mutated, Clause("attributes", AllMatch(option)))
           IN Push(clauses, updateParams(clauses, subjectsParams, <<>>),
                   "updateVariationAttributeSelector", "attributes", AllMatch(option))

\* the evaluation in flight delivers: find$ emits, distinctUntilChanged
\* compares with the last result it passed, the subscriber publishes
Evaluated ==
    /\ pipe.status = "evaluating"
    /\ LET next == Evaluate(pipe.snapshot[1], store)
           passes == subjectsResult = <<>> \/ ~resultsEqual(subjectsResult[1], next)
       IN /\ subjectsResult' = IF passes THEN <<next>> ELSE subjectsResult
          /\ qev' = [kind |-> IF passes THEN "published" ELSE "suppressed",
                     field |-> pipe.cause, value |-> Undefined]
    /\ pipe' = [pipe EXCEPT !.status = "idle", !.cause = "none"]
    /\ UNCHANGED <<revision, whereClauses, subjectsParams, store, besidesQuery>>

\* the store query or the search rejects: the error reaches the subscriber
\* of find$, which has no error callback and no catchError before it: the
\* subscription ends and nothing is pushed to errorSubject
EvaluationFails ==
    /\ pipe.status = "evaluating"
    /\ pipe' = [status |-> "dead", cause |-> "none", snapshot |-> <<>>]
    /\ qev' = [kind |-> "unhandledError", field |-> pipe.cause, value |-> Undefined]
    /\ UNCHANGED <<revision, whereClauses, subjectsParams, store, subjectsResult, besidesQuery>>

\* a document enters or leaves the collection: find().$ emits again
StoreChange ==
    \E doc \in Volatile :
        /\ store' = IF doc \in store THEN store \ {doc} ELSE store \cup {doc}
        /\ pipe' = IF pipe.status = "dead" THEN pipe
                   ELSE [pipe EXCEPT !.status = "evaluating", !.cause = "store"]
        /\ qev' = [kind |-> "store", field |-> Undefined, value |-> Undefined]
        /\ UNCHANGED <<revision, whereClauses, subjectsParams, subjectsResult, besidesQuery>>

\* the constructor: the clauses of initialParams.selector, initialParams
\* pushed, find$ subscribed
QInit ==
    /\ revision \in Revisions
    /\ \E clauses \in {<<>>, <<Clause("cat", "x")>>} :
          /\ whereClauses = clauses
          /\ subjectsParams = [search |-> Undefined, sortBy |-> Undefined,
                               sortDirection |-> Undefined, selector |-> clauses]
    /\ store \in {Documents, Documents \ Volatile}
    /\ pipe = [status |-> "evaluating", cause |-> "params", snapshot |-> <<subjectsParams>>]
    /\ subjectsResult = <<>>
    /\ qev = [kind |-> "new", field |-> Undefined, value |-> Undefined]

\* ------------------------------------------------- QueryReplicationState
Procs == 1..MaxRuns
IdleProc == [pc |-> "idle", viaRun |-> FALSE, caller |-> "none", include |-> 0, data |-> 0]
InCycle == {"getUnsyncedRemoteIDs", "getSyncedRemoteIDs", "http", "upsertRefs", "bulkUpsert"}
FreeProcs == {p \in Procs : procs[p].pc = "idle"}
FreeProc == CHOOSE p \in FreeProcs : \A q \in FreeProcs : p <= q
Event(kind, p) == [kind |-> kind, proc |-> p, include |-> 0, exclude |-> 0]
\* the event of a request, with the sizes of the two id lists it chose by
RequestEvent(kind, p, include, exclude) ==
    [kind |-> kind, proc |-> p, include |-> include, exclude |-> exclude]

\* as isStopped, but without the paused test
isStopped_CanceledOnly(r) == r.isCanceled

\* as isStopped, but without the isCanceled test
isStopped_PausedOnly(r) == r.paused

isStopped(r) == r.isCanceled \/ r.paused

\* as fetchUnsyncedReturnsEarly, but without the active test
fetchUnsyncedReturnsEarly_StoppedOnly(r) == isStopped(r)

\* the guard at the head of fetchUnsynced
fetchUnsyncedReturnsEarly(r) == isStopped(r) \/ r.active

\* as RequestFor, but the exclude list is never sent
RequestFor_AlwaysInclude(include, exclude) ==
    IF include = 0 THEN "fetchLastModified"
    ELSE "fetchUnsyncedRemoteIDs.include"

\* as RequestFor, but lists of equal length send the exclude list
RequestFor_TieExcludes(include, exclude) ==
    IF include = 0 THEN "fetchLastModified"
    ELSE IF exclude <= include THEN "fetchUnsyncedRemoteIDs.exclude"
    ELSE "fetchUnsyncedRemoteIDs.include"

\* the request fetchUnsynced issues for the id lists it was given
RequestFor(include, exclude) ==
    IF include = 0 THEN "fetchLastModified"
    ELSE IF exclude < include THEN "fetchUnsyncedRemoteIDs.exclude"
    ELSE "fetchUnsyncedRemoteIDs.include"

\* fetchUnsynced up to its first await, called in invocation p
fetchUnsynced(p, viaRun) ==
    IF fetchUnsyncedReturnsEarly(replication)
    THEN /\ procs' = [procs EXCEPT ![p] = IdleProc]
         /\ ev' = Event("dropped", p)
         /\ UNCHANGED replication
    ELSE /\ replication' = [replication EXCEPT !.active = TRUE]
         /\ procs' = [procs EXCEPT ![p] = [IdleProc EXCEPT !.pc = "getUnsyncedRemoteIDs",
                                                          !.viaRun = viaRun,
                                                          !.caller = procs[p].caller]]
         /\ ev' = Event("begin", p)

\* fetchUnsynced's catch and finally blocks
Caught(p) ==
    /\ replication' = [replication EXCEPT !.active = FALSE]
    /\ procs' = [procs EXCEPT ![p] = IdleProc]
    /\ ev' = Event("error", p)

\* an await outside the try block rejects: the invocation's promise rejects
\* and no caller handles it
Rejected(p) ==
    /\ procs' = [procs EXCEPT ![p] = IdleProc]
    /\ ev' = Event("unhandledRejection", p)
    /\ UNCHANGED replication

\* a new run() invocation, suspended at `await firstSync`
Spawn(kind) ==
    /\ FreeProcs # {}
    /\ procs' = [procs EXCEPT ![FreeProc] = [IdleProc EXCEPT !.pc = "firstSync",
                                                             !.viaRun = TRUE,
                                                             !.caller = kind]]
    /\ ev' = Event(kind, FreeProc)

\* as run, but fetchUnsynced is not held back by firstSync
run_NoFirstSync(p) ==
    /\ procs[p].pc = "firstSync"
    /\ fetchUnsynced(p, TRUE)

\* run() resumes after `await firstSync`
run(p) ==
    /\ procs[p].pc = "firstSync"
    /\ firstSync
    /\ fetchUnsynced(p, TRUE)

\* start(): paused.next(false); the timer pipeline, if still subscribed,
\* switches to a new interval that emits at once (startWith(0))
ReplicationStart ==
    /\ replication' = [replication EXCEPT !.paused = FALSE]
    /\ IF replication.isCanceled
       THEN /\ ev' = Event("start", 0)
            /\ UNCHANGED procs
       ELSE Spawn("start")
    /\ UNCHANGED <<firstSync, besidesReplication>>

ReplicationPause ==
    /\ replication' = [replication EXCEPT !.paused = TRUE]
    /\ ev' = Event("pause", 0)
    /\ UNCHANGED <<firstSync, procs, besidesReplication>>

\* cancel(): isCanceled is set and the subscriptions in subs are closed
ReplicationCancel ==
    /\ replication' = CancelObject(replication)
    /\ ev' = Event("cancel", 0)
    /\ UNCHANGED <<firstSync, procs, besidesReplication>>

\* the interval emits: it exists only while subscribed and not paused
TimerFire ==
    /\ ~replication.isCanceled
    /\ ~replication.paused
    /\ Spawn("timer")
    /\ UNCHANGED <<replication, firstSync, besidesReplication>>

NextPage ==
    /\ Spawn("nextPage")
    /\ UNCHANGED <<replication, firstSync, besidesReplication>>

FirstSyncResolves ==
    /\ ~firstSync
    /\ firstSync' = TRUE
    /\ ev' = Event("firstSync", 0)
    /\ UNCHANGED <<replication, procs, besidesReplication>>

Run ==
    \E p \in Procs :
        /\ run(p)
        /\ UNCHANGED <<firstSync, besidesReplication>>

\* fetchUnsynced() called on the replicator directly
FetchUnsynced ==
    /\ FreeProcs # {}
    /\ fetchUnsynced(FreeProc, FALSE)
    /\ UNCHANGED <<firstSync, besidesReplication>>

\* `await getUnsyncedRemoteIDs()` settles: before the try block
GetUnsyncedRemoteIDs ==
    \E p \in Procs :
        /\ procs[p].pc = "getUnsyncedRemoteIDs"
        /\ \/ \E include \in 0..MaxIds :
                /\ procs' = [procs EXCEPT ![p].pc = "getSyncedRemoteIDs",
                                          ![p].include = include]
                /\ ev' = Event("include", p)
                /\ UNCHANGED replication
           \/ Rejected(p)
        /\ UNCHANGED <<firstSync, besidesReplication>>

\* `await getSyncedRemoteIDs()` settles: before the try block; on success
\* the syncCompleted test and the choice of the request follow at once
GetSyncedRemoteIDs ==
    \E p \in Procs :
        /\ procs[p].pc = "getSyncedRemoteIDs"
        /\ \/ \E exclude \in 0..MaxIds :
                IF replication.syncCompleted
                THEN /\ replication' = [replication EXCEPT !.active = FALSE]
                     /\ procs' = [procs EXCEPT ![p] = IdleProc]
                     /\ ev' = Event("collectionReplication.fetchUnsynced", p)
                ELSE /\ procs' = [procs EXCEPT ![p].pc = "http", ![p].include = 0]
                     /\ ev' = RequestEvent(RequestFor(procs[p].include, exclude), p,
                                            procs[p].include, exclude)
                     /\ UNCHANGED replication
           \/ Rejected(p)
        /\ UNCHANGED <<firstSync, besidesReplication>>

\* as syncCompletedAfter, but any list response completes the sync
syncCompletedAfter_AnyList(syncCompleted, data) == TRUE

\* syncCompleted after a list response of data documents:
\* if (response.data.length === 0) this.syncCompleted = true
syncCompletedAfter(syncCompleted, data) ==
    IF data = 0 THEN TRUE ELSE syncCompleted

\* the request settles: it rejects, or answers without a data array, or
\* answers with an array of documents
HttpResponse ==
    \E p \in Procs :
        /\ procs[p].pc = "http"
        /\ \/ Caught(p)
           \/ \E data \in 0..MaxDocs :
                /\ replication' = [replication EXCEPT
                                     !.syncCompleted = syncCompletedAfter(@, data)]
                /\ procs' = [procs EXCEPT ![p].pc = "upsertRefs", ![p].data = data]
                /\ ev' = Event("response", p)
        /\ UNCHANGED <<firstSync, besidesReplication>>

\* Promise.all over parseRestResponse and upsertRefs of each document settles
UpsertRefs ==
    \E p \in Procs :
        /\ procs[p].pc = "upsertRefs"
        /\ \/ /\ procs[p].data > 0
              /\ Caught(p)
           \/ /\ procs' = [procs EXCEPT ![p].pc = "bulkUpsert", ![p].data = 0]
              /\ ev' = Event("bulkUpsert", p)
              /\ UNCHANGED replication
        /\ UNCHANGED <<firstSync, besidesReplication>>

\* `await bulkUpsert(documents)` settles
BulkUpsert ==
    \E p \in Procs :
        /\ procs[p].pc = "bulkUpsert"
        /\ \/ Caught(p)
           \/ /\ replication' = [replication EXCEPT !.active = FALSE]
              /\ procs' = [procs EXCEPT ![p] = IdleProc]
              /\ ev' = Event("done", p)
        /\ UNCHANGED <<firstSync, besidesReplication>>

RInit ==
    /\ replication = [paused |-> TRUE, active |-> FALSE, isCanceled |-> FALSE,
                      syncCompleted |-> FALSE]
    /\ firstSync = FALSE
    /\ procs = [p \in Procs |-> IdleProc]
    /\ ev = Event("new", 0)

\* the Query of the other specifications: a fresh one, in the newer revision
QIdle ==
    /\ QInit
    /\ revision = Newer /\ whereClauses = <<>> /\ store = Documents

Init == MInit /\ RInit /\ IInit /\ QIdle /\ CInit

Next ==
    \/ RegisterQuery
    \/ RegisterRelationalQuery
    \/ DeregisterQuery
    \/ OnCollectionReset
    \/ Cancel
    \/ UpdateParams

vars == <<mvars, rvars, ivars, qvars, cvars>>

\* the Manager under its callers
Spec == Init /\ [][Next]_vars

InitReplication == Init /\ env.configs = {ConfigDefault}

NextReplication ==
    \/ ReplicationStart
    \/ ReplicationPause
    \/ ReplicationCancel
    \/ TimerFire
    \/ NextPage
    \/ FirstSyncResolves
    \/ Run
    \/ FetchUnsynced
    \/ GetUnsyncedRemoteIDs
    \/ GetSyncedRemoteIDs
    \/ HttpResponse
    \/ UpsertRefs
    \/ BulkUpsert

\* one QueryReplicationState under its callers
SpecReplication == InitReplication /\ [][NextReplication]_vars

InitInstance == Init /\ env.configs = {ConfigDefault}

NextInstance ==
    \/ GetInstance
    \/ ManagerCancel
    \/ OnDestroy

\* the Manager class under the callers of getInstance
SpecInstance == InitInstance /\ [][NextInstance]_vars

InitQuery == MInit /\ env.configs = {ConfigDefault} /\ RInit /\ IInit /\ QInit /\ CInit

NextQuery ==
    \/ Where
    \/ Sort
    \/ Search
    \/ UpdateVariationAttributeSelector
    \/ Evaluated
    \/ EvaluationFails
    \/ StoreChange

\* one Query under its callers and its store
SpecQuery == InitQuery /\ [][NextQuery]_vars

InitClash == MFresh /\ env = EnvClash /\ RInit /\ IInit /\ QIdle /\ CInit

InitHeld == MFresh /\ env = EnvHeld /\ RInit /\ IInit /\ QIdle /\ CInit

NextHeld ==
    \/ RegisterQuery
    \/ DeregisterQuery
    \/ OnCollectionReset
    \/ UpdateParams
    \/ UpdateParamsDetached

\* the Manager under callers that keep deregistered Query objects
SpecHeld == InitHeld /\ [][NextHeld]_vars

InitComparator == Init /\ env.configs = {ConfigDefault}

NextComparator == FindEmits

\* the result subscription under any sequence of candidates
SpecComparator == InitComparator /\ [][NextComparator]_vars

NextClash ==
    \/ RegisterQuery
    \/ UpdateParams

\* the Manager under callers that register queries and change their
\* parameters, one endpoint spelling a derived endpoint of another
SpecClash == InitClash /\ [][NextClash]_vars

\* ------------------------------------------------------------------ claims
IsRegister(o) == o.name \in {"registerQuery", "registerRelationalQuery"}
DerivedEndpoint(query) ==
    buildEndpointWithParams(query.endpoint, getApiQueryParams(query.params))

\* C1: a registerQuery or registerRelationalQuery call whose key is already
\* registered returns the evaluator registered under the key and changes no
\* registry and no object (no Query is constructed, onNewQueryState does not
\* run), and no register call replaces the replicator of an endpoint that
\* already holds one of the variant it asks for.
C1_Dedup ==
    [][IsRegister(op') =>
         /\ Has(queryStates, op'.key) =>
               /\ ret' = QueryRef(M, op'.key)
               /\ UNCHANGED <<queryStates, replicationStates, replications,
                              activeCollectionReplications, activeQueryReplications>>
         /\ \A e \in DOMAIN replicationStates :
               /\ Has(replicationStates', e)
               /\ replicationStates'[e] # replicationStates[e] =>
                     VariantOf(replicationStates'[e]) # VariantOf(replicationStates[e])
      ]_vars

\* a register call has found its key registered and returned its evaluator
C1_Witness == IsRegister(op) /\ op.hit /\ ret # None

\* C2: when deregisterQuery removes a query whose active QueryReplicator is
\* still the active QueryReplicator of another registered query, the
\* replicator is left unpaused; when it removes the second of two queries
\* that shared the replicator (its last referrer), the replicator is left
\* paused.
C2_ReferenceCountedPause ==
    [][(op'.name = "deregisterQuery" /\ Has(activeQueryReplications, op'.key)) =>
         LET r == activeQueryReplications[op'.key]
             others == {k \in DOMAIN activeQueryReplications' :
                           activeQueryReplications'[k] = r}
         IN /\ others # {} => ~replications'[r].paused
            /\ (others = {} /\ op.name = "deregisterQuery" /\ op.rep = r
                  /\ r \in DOMAIN replications') => replications'[r].paused
      ]_vars

Requests == {"fetchLastModified", "fetchUnsyncedRemoteIDs.exclude",
             "fetchUnsyncedRemoteIDs.include"}
CyclesInFlight == {p \in Procs : procs[p].pc \in InCycle}

\* C3: a response with an empty data array sets syncCompleted; no request
\* is issued once syncCompleted is set; and a fetchUnsynced call that has
\* passed the guard with syncCompleted set ends only by calling the collection
\* replication's fetchUnsynced.
C3_SyncExhaustion ==
    [][/\ \A p \in Procs :
            (procs[p].pc = "http" /\ procs'[p].pc = "upsertRefs" /\ procs'[p].data = 0)
            => replication'.syncCompleted
       /\ ev'.kind \in Requests => ~replication.syncCompleted
       /\ \A p \in Procs :
            (replication.syncCompleted
               /\ procs[p].pc \in {"getUnsyncedRemoteIDs", "getSyncedRemoteIDs"}
               /\ procs'[p].pc \notin InCycle)
            => ev' = Event("collectionReplication.fetchUnsynced", p)
      ]_vars

\* C4: at most one fetch cycle is between active set and active cleared, a
\* cycle in flight has active set, and a fetchUnsynced call made while active
\* is set issues nothing and leaves nothing behind: its invocation is over and
\* every other invocation is where it was.
C4_SingleFlight ==
    [][/\ Cardinality(CyclesInFlight') <= 1
       /\ CyclesInFlight' # {} => replication'.active
       /\ ev'.kind = "begin" => ~replication.active
       /\ ev'.kind = "dropped"
            => /\ CyclesInFlight' = CyclesInFlight
               /\ procs'[ev'.proc] = IdleProc
               /\ \A q \in Procs \ {ev'.proc} : procs'[q] = procs[q]
               /\ replication' = replication
      ]_vars

\* a call has been dropped while another invocation's cycle is in flight
C4_Witness ==
    /\ ev.kind = "dropped"
    /\ replication.active /\ ~replication.paused /\ ~replication.isCanceled
    /\ \E p \in Procs : procs[p].pc = "http"

\* C5: whenever no fetch cycle is in flight active is false, whichever
\* awaited step failed, and no invocation ends in an unhandled rejection:
\* every failure is pushed to the error channel.
C5_ActiveAlwaysCleared ==
    /\ CyclesInFlight = {} => ~replication.active
    /\ ev.kind # "unhandledRejection"

\* C6: the replicator starts paused, start() leaves it running and pause()
\* paused, only start() takes it from paused to running, a canceled
\* replicator stays canceled, and a fetch cycle begins only in a replicator
\* that is running and not canceled.
C6_PausedRunningCanceled ==
    /\ replication.paused
    /\ [][/\ ev'.kind = "begin" => ~replication.paused /\ ~replication.isCanceled
          /\ ev'.kind = "start" => ~replication'.paused
          /\ ev'.kind = "pause" => replication'.paused
          /\ ev'.kind = "cancel" => replication'.isCanceled
          /\ (replication.paused /\ ~replication'.paused) => ev'.kind = "start"
          /\ replication.isCanceled => replication'.isCanceled
         ]_vars

\* a cycle has begun in a running replicator whose earlier cycle completed
\* the sync, while another run() is still waiting for firstSync
C6_Witness ==
    /\ ev.kind = "begin"
    /\ \E p \in Procs : procs[p].pc = "firstSync"
    /\ replication.syncCompleted

\* C7 as stated: no request is issued and no bulkUpsert performed before
\* firstSync has resolved.
C7_NothingBeforeFirstSync ==
    (ev.kind \in Requests \/ ev.kind = "bulkUpsert") => firstSync

\* C7 amended: an invocation of run() (from the timer, start() or nextPage())
\* reaches the guard of fetchUnsynced only after firstSync has resolved, so it
\* issues no request and performs no bulkUpsert before that; a fetchUnsynced()
\* called directly is not held back.
C7_RunAwaitsFirstSync ==
    /\ \A p \in Procs : (procs[p].viaRun /\ procs[p].pc \in InCycle) => firstSync
    /\ ((ev.kind \in Requests \/ ev.kind = "bulkUpsert") /\ procs[ev.proc].viaRun)
         => firstSync

\* an invocation of run() has issued a request
C7_Witness ==
    /\ ev.kind \in Requests
    /\ procs[ev.proc].viaRun
    /\ firstSync

\* C8: replicationStates maps an endpoint to one replicator object, of that
\* endpoint and of one variant, and registerCollectionReplication
\* (registerQueryReplication) for an endpoint that holds a CollectionReplicator
\* (QueryReplicator) constructs nothing and leaves the registry as it is.
C8_OneReplicatorPerEndpoint ==
    \A e \in DOMAIN replicationStates :
        LET r == replicationStates[e]
        IN /\ r \in DOMAIN replications
           /\ EndpointOf(r) = e
           /\ VariantOf(r) \in {"collection", "query"}
           /\ \A c \in LocalDB :
                LET m == IF VariantOf(r) = "collection"
                         THEN registerCollectionReplication(M, c, e)
                         ELSE registerQueryReplication(M, c, e)
                IN /\ m.replications = replications
                   /\ m.replicationStates = replicationStates
                   /\ m.replicationStates[e] = r

\* two registered queries have one CollectionReplicator and one QueryReplicator
C8_Witness ==
    /\ Keys \subseteq DOMAIN activeQueryReplications
    /\ activeCollectionReplications["k1"] = activeCollectionReplications["k2"]
    /\ activeQueryReplications["k1"] = activeQueryReplications["k2"]
    /\ ~op.hit /\ IsRegister(op)

C11_CancelOrder ==
    /\ op.name = "cancel" =>
          /\ isCanceled
          /\ \A k \in DOMAIN queryStates : queryStates[k].isCanceled
          /\ \A e \in DOMAIN replicationStates :
                replications[replicationStates[e]].isCanceled
    /\ LET stages == cancelStages(M)
       IN /\ stages[1] = [M EXCEPT !.isCanceled = TRUE]
          /\ stages[2].isCanceled /\ stages[2].replications = replications
          /\ \A k \in DOMAIN queryStates : stages[2].queryStates[k].isCanceled
          /\ stages[3].queryStates = stages[2].queryStates
          /\ \A e \in DOMAIN replicationStates :
                stages[3].replications[replicationStates[e]].isCanceled
          /\ stages[3] = cancel(M)

\* a Manager that held running queries and replicators has just been canceled
C11_Witness ==
    /\ op.name = "cancel" /\ ~op.hit
    /\ Keys \subseteq DOMAIN queryStates
    /\ \E e1, e2 \in DOMAIN replicationStates :
          VariantOf(replicationStates[e1]) # VariantOf(replicationStates[e2])

\* C12: getInstance called with the localDB, fastLocalDB and locale of the
\* current instance returns that instance and constructs nothing; called with
\* another triple it leaves the instance it replaces canceled and installs
\* and returns a new, un-canceled Manager; at no time are two Managers
\* constructed through getInstance un-canceled.
C12_Singleton ==
    [][/\ iev'.name = "getInstance" =>
            /\ iev'.ret = instance' /\ instance' # 0
            /\ iev'.same => instance' = instance /\ managers' = managers
            /\ ~iev'.same =>
                  /\ Len(managers') = Len(managers) + 1
                  /\ instance' = Len(managers')
                  /\ ~managers'[instance'].m.isCanceled
                  /\ instance # 0 => managers'[instance].m.isCanceled
       /\ Cardinality({i \in DOMAIN managers' : ~managers'[i].m.isCanceled}) <= 1
      ]_vars

\* getInstance has replaced an un-canceled instance
C12_Witness ==
    /\ iev.name = "getInstance" /\ ~iev.same
    /\ Len(managers) > 1
    /\ managers[instance].localDB = managers[instance - 1].localDB
    /\ managers[instance].locale # managers[instance - 1].locale

\* C13 as stated: onCollectionReset(c) leaves every replicator of collection
\* c canceled and in none of replicationStates, activeCollectionReplications
\* and activeQueryReplications, leaves no query of c in queryStates or the
\* active registries, and leaves the queries and replicators of every other
\* collection as they were, in every registry that held them.
C13_CollectionReset ==
    [][op'.name = "onCollectionReset" =>
         LET c == op'.key
         IN /\ \A k \in DOMAIN queryStates :
                 IF queryStates[k].collection = c
                 THEN /\ ~Has(queryStates', k)
                      /\ ~Has(activeCollectionReplications', k)
                      /\ ~Has(activeQueryReplications', k)
                 ELSE /\ Get(queryStates', k) = queryStates[k]
                      /\ Get(activeCollectionReplications', k) = activeCollectionReplications[k]
                      /\ Get(activeQueryReplications', k) = activeQueryReplications[k]
            /\ \A r \in DOMAIN replications :
                 IF replications[r].collection = c
                 THEN /\ r \in DOMAIN replications' => replications'[r].isCanceled
                      /\ r \notin Values(replicationStates')
                      /\ r \notin Values(activeCollectionReplications')
                      /\ r \notin Values(activeQueryReplications')
                 ELSE /\ r \in DOMAIN replications' /\ replications'[r] = replications[r]
                      /\ \A e \in DOMAIN replicationStates :
                            replicationStates[e] = r => Get(replicationStates', e) = r
      ]_vars

\* the operations of a Query that push a parameter snapshot
Pushes == {"where", "sort", "search", "updateVariationAttributeSelector"}

\* C14: a parameter snapshot equal to the previous one publishes no result.
\* In the newer revision the push starts no evaluation at all; in the older
\* one the evaluation it starts (in a Query that was at rest) ends without a
\* publication, and while it is in flight the last published result already
\* equals what it will yield.
C14_ResultStability ==
    /\ [][qev'.kind \in Pushes => subjectsResult' = subjectsResult]_vars
    /\ [][(qev'.kind \in Pushes /\ subjectsParams' = subjectsParams /\ revision = Newer)
            => pipe' = pipe]_vars
    /\ [][qev'.kind = "published" => pipe.cause # "same"]_vars
    /\ [](pipe.cause = "same" =>
            (subjectsResult # <<>> /\
             subjectsResult[1] = Evaluate(subjectsParams, store)))

\* C14 witness: in the older revision an evaluation started by an equal
\* snapshot (where() with the value the field has) ended without a publication.
C14_Witness ==
    /\ revision = Older
    /\ qev.kind = "suppressed"
    /\ qev.field = "same"
    /\ whereClauses # <<>>
    /\ subjectsResult # <<>>

\* a search text is set: find$ takes the search-active path
SearchIsActive(snapshot) == snapshot.search # Undefined /\ snapshot.search # ""

\* position of an id in a list without repetitions (0 when absent)
IndexIn(seq, id) ==
    IF \E i \in DOMAIN seq : seq[i] = id
    THEN CHOOSE i \in DOMAIN seq : seq[i] = id
    ELSE 0

\* C15: a result published while a search text is set has searchActive =
\* TRUE and the text as searchTerm; its hits are the ranked ids that the
\* store holds (and the selector accepts), each once and in ranked order;
\* ranked ids the store lacks are dropped; sortBy and sortDirection have no
\* effect on it.
C15_SearchRankOrder ==
    [][(qev'.kind = "published" /\ SearchIsActive(subjectsParams)) =>
         LET result == subjectsResult'[1]
             ranked == Ranked(subjectsParams.search)
             stored == {doc.id : doc \in find(store, subjectsParams.selector)}
         IN /\ result.searchActive
            /\ result.searchTerm = subjectsParams.search
            /\ {result.hits[i] : i \in DOMAIN result.hits}
                  = {ranked[i] : i \in DOMAIN ranked} \cap stored
            /\ \A i, j \in DOMAIN result.hits :
                  i < j => IndexIn(ranked, result.hits[i]) < IndexIn(ranked, result.hits[j])
            /\ \A sortBy \in {Undefined, "name"}, sortDirection \in {Undefined, "asc", "desc"} :
                  result = Evaluate([subjectsParams EXCEPT !.sortBy = sortBy,
                                                          !.sortDirection = sortDirection], store)
      ]_vars

\* C15 witness: after sort('name', 'asc') and search('milk') on the full
\* store without a filter, the hits 3, 1, 2 are published in ranked order,
\* which is neither the order of name nor that of id; 9 is dropped.
C15_Witness ==
    /\ qev.kind = "published"
    /\ subjectsParams.search = "milk"
    /\ subjectsParams.sortBy = "name" /\ subjectsParams.sortDirection = "asc"
    /\ whereClauses = <<>>
    /\ store = Documents
    /\ subjectsResult = <<QueryResult(TRUE, "milk", <<3, 1, 2>>)>>

\* C16 as stated: when the store or the search rejects during an evaluation
\* the error is pushed to the error channel the Query shares with its
\* Manager and the last published result stays current; and a parameter
\* change after it is still evaluated.
C16_EvaluationErrorReported ==
    /\ [][qev'.kind = "unhandledError" =>
            (errs' = errs + 1 /\ subjectsResult' = subjectsResult)]_vars
    /\ [][(qev'.kind \in Pushes /\ subjectsParams' # subjectsParams) =>
            pipe'.status = "evaluating"]_vars

\* C17 as stated: after where(f, v) the clause list holds exactly one clause
\* of field f, with value v, or none when v is null; the clauses of the
\* other fields are as before; and the snapshot pushed has a selector that
\* reflects the clause list (for f: the value v, or no entry).
C17_WhereUpserts ==
    [][qev'.kind = "where" =>
         LET f == qev'.field
             v == qev'.value
             ForField(i, clause) == clause.field = f
             Others(i, clause) == clause.field # f
             expected == IF v = Null THEN <<>> ELSE <<Clause(f, v)>>
         IN /\ SelectSeq2(whereClauses', ForField) = expected
            /\ SelectSeq2(whereClauses', Others) = SelectSeq2(whereClauses, Others)
            /\ SelectSeq2(subjectsParams'.selector, ForField) = expected
            /\ SelectSeq2(subjectsParams'.selector, Others) = SelectSeq2(whereClauses, Others)
      ]_vars

\* C18 as stated: registerQuery with a collection name localDB lacks, or with
\* queryKeys that do not serialize, pushes an error, returns undefined and
\* leaves queryStates, replicationStates and both active registries as they
\* were, whatever the Manager holds.
C18_ConfigurationErrors ==
    \A queryKeys \in env.queryKeys, config \in env.configs, initialParams \in env.params :
        (stringifyFails(queryKeys) \/ config.collectionName \notin LocalDB) =>
            LET m == registerQuery(M, queryKeys, config.collectionName,
                                   config.endpoint, initialParams)
            IN /\ m.errs > M.errs
               /\ QueryRef(m, stringify(queryKeys)) = None
               /\ m.queryStates = M.queryStates
               /\ m.replicationStates = M.replicationStates
               /\ m.activeCollectionReplications = M.activeCollectionReplications
               /\ m.activeQueryReplications = M.activeQueryReplications

\* the invocations of run() that nextPage() started and that resume in this step
NextPageResumes == {p \in Procs : /\ procs[p].pc = "firstSync"
                                  /\ procs[p].caller = "nextPage"
                                  /\ procs'[p].pc # "firstSync"}

\* C19 as stated: the run() that a nextPage() call starts on a replicator
\* that is not canceled starts a fetch cycle unless a cycle is active, also
\* while the replicator is paused.
C19_NextPageAlsoWhilePaused ==
    [][\A p \in NextPageResumes :
         (~replication.isCanceled /\ ~replication.active) => ev' = Event("begin", p)]_vars

\* C19 amended: every nextPage() call starts one invocation of run(), whether
\* the replicator is running, paused or canceled, and changes nothing else;
\* the invocation goes on only once firstSync has resolved and then makes one
\* fetchUnsynced() call, which starts a fetch cycle if and only if at that
\* moment the replicator is not paused, not canceled and has no cycle active;
\* otherwise (so while paused) the call ends at once and nothing is requested.
C19_NextPageRunsOnce ==
    /\ [][ev'.kind = "nextPage" =>
            /\ procs[ev'.proc] = IdleProc
            /\ procs' = [procs EXCEPT ![ev'.proc] =
                            [IdleProc EXCEPT !.pc = "firstSync", !.viaRun = TRUE,
                                             !.caller = "nextPage"]]
            /\ replication' = replication
          ]_vars
    /\ [][\A p \in NextPageResumes :
            /\ firstSync
            /\ replication'.paused = replication.paused
            /\ replication'.isCanceled = replication.isCanceled
            /\ IF replication.paused \/ replication.isCanceled \/ replication.active
               THEN /\ ev' = Event("dropped", p)
                    /\ procs'[p] = IdleProc
                    /\ replication' = replication
               ELSE /\ ev' = Event("begin", p)
                    /\ procs'[p].pc = "getUnsyncedRemoteIDs"
                    /\ replication'.active
          ]_vars

\* C19 witness: a run() started by nextPage() has issued a request while
\* another invocation of nextPage() is still waiting.
C19_Witness ==
    /\ ev.kind \in Requests
    /\ procs[ev.proc].caller = "nextPage"
    /\ \E p \in Procs : p # ev.proc /\ procs[p].caller = "nextPage"

\* C20: whenever a parameter change of a query is delivered, the
\* QueryReplicator installed for it is a QueryReplicator and is unpaused
\* afterwards (also when it is the one that was active before); when the
\* derived endpoint has changed, the replicator that was active before is
\* paused afterwards if and only if it is the active QueryReplicator of no
\* other registered query; and the paused flag of every CollectionReplicator
\* is as it was.
C20_PauseOnEndpointChange ==
    [][(op'.name = "updateParams" /\ op'.hit) =>
         LET key == op'.key
             old == op'.rep
             new == activeQueryReplications'[key]
             others == {k \in DOMAIN activeQueryReplications \ {key} :
                           activeQueryReplications[k] = old}
         IN /\ old = activeQueryReplications[key]
            /\ VariantOf(new) = "query"
            /\ ~replications'[new].paused
            /\ EndpointOf(new) # EndpointOf(old) =>
                  (old \in DOMAIN replications' => (replications'[old].paused <=> others = {}))
            /\ \A r \in DOMAIN replications :
                  VariantOf(r) = "collection" =>
                     (r \in DOMAIN replications' => replications'[r].paused = replications[r].paused)
      ]_vars

\* C21 as stated: when the response of a request arrives at a replicator
\* that has been canceled, the cycle ends there: it leaves syncCompleted as
\* it was and goes on to no upsertRefs and no bulkUpsert.
C21_ResponseDiscardedAfterCancel ==
    [][\A p \in Procs :
         (replication.isCanceled /\ procs[p].pc = "http" /\ procs'[p].pc # "http") =>
            /\ replication'.syncCompleted = replication.syncCompleted
            /\ procs'[p] = IdleProc
      ]_vars

\* C22: the evaluation in flight is always one of the snapshot pushed last,
\* and a result that is published is the result of that snapshot on the
\* store as it is: a parameter change drops the evaluation of the snapshot
\* before it.
C22_LatestWins ==
    /\ [](pipe.status # "dead" => pipe.snapshot = <<subjectsParams>>)
    /\ [][qev'.kind = "published" =>
            subjectsResult' = <<Evaluate(subjectsParams, store)>>]_vars

\* C22 witness: before the evaluation of the initial snapshot has delivered
\* anything, search('milk') was pushed: the evaluation in flight is the one
\* of the new snapshot.
C22_Witness ==
    /\ subjectsResult = <<>>
    /\ qev.kind = "search"
    /\ subjectsParams.search = "milk"
    /\ pipe.status = "evaluating"
    /\ pipe.snapshot = <<subjectsParams>>

\* the equivalence of two results the specification words
Equivalent(prev, next) ==
    /\ prev.searchActive = next.searchActive
    /\ prev.searchTerm = next.searchTerm
    /\ Len(prev.hits) = Len(next.hits)
    /\ \A i \in 1..Len(prev.hits) :
          /\ i <= Len(next.hits)
          /\ prev.hits[i].id = next.hits[i].id
          /\ next.searchActive =>
                /\ prev.hits[i].score = next.hits[i].score
                /\ prev.hits[i].parentSearchTerm = next.hits[i].parentSearchTerm
                /\ prev.hits[i].childrenSearchCount = next.hits[i].childrenSearchCount

\* C24: whatever result was passed on last, a candidate is suppressed if and
\* only if it is equivalent to it, and is passed on otherwise.
C24_SuppressesEquivalent ==
    lastResult # <<>> =>
        \A next \in Results :
            /\ Equivalent(lastResult[1], next) => distinctUntilChanged(lastResult, next) = lastResult
            /\ ~Equivalent(lastResult[1], next) =>
                  (distinctUntilChanged(lastResult, next) = <<next>> /\ next # lastResult[1])

\* C24 witness: a candidate was suppressed after a result of an active
\* search whose hits carry a score and children counts.
C24_Witness ==
    /\ cev = "suppressed"
    /\ lastResult # <<>>
    /\ lastResult[1].searchActive
    /\ Len(lastResult[1].hits) = 2
    /\ lastResult[1].hits[1].score = 1
    /\ lastResult[1].hits[2].childrenSearchCount = 1

\* C23: deregisterQuery(key) of a registered key has the key out of
\* queryStates, activeCollectionReplications and activeQueryReplications at
\* the moment it cancels the query, the query not canceled before, and
\* leaves the query canceled and every other entry as it was; of a key not
\* registered it changes nothing.
C23_DeregisterOrder ==
    /\ op.name = "deregisterQuery" =>
          /\ ~Has(queryStates, op.key)
          /\ ~Has(activeCollectionReplications, op.key)
          /\ ~Has(activeQueryReplications, op.key)
    /\ \A key \in {stringify(queryKeys) : queryKeys \in env.queryKeys} :
          LET stages == deregisterQueryStages(M, key)
          IN IF Has(queryStates, key)
             THEN /\ stages[1].query = queryStates[key]
                  /\ ~Has(stages[1].m.queryStates, key)
                  /\ ~Has(stages[1].m.activeCollectionReplications, key)
                  /\ ~Has(stages[1].m.activeQueryReplications, key)
                  /\ stages[1].m = [M EXCEPT
                        !.queryStates = Delete(@, key),
                        !.activeCollectionReplications = Delete(@, key),
                        !.activeQueryReplications = Delete(@, key)]
                  /\ stages[2].query.isCanceled
                  /\ stages[2].m = stages[1].m
                  /\ deregisterQuery(M, key) = stages[2].m
             ELSE /\ stages[1].m = M
                  /\ deregisterQuery(M, key) = M

\* a query with an active query replicator has just been deregistered, and
\* another one is still registered
C23_Witness ==
    /\ op.name = "deregisterQuery" /\ op.hit
    /\ op.rep # None
    /\ queryStates # EmptyRegistry

\* the events of a request sent by fetchUnsynced
IdListRequests == {"fetchUnsyncedRemoteIDs.exclude", "fetchUnsyncedRemoteIDs.include"}
\* the length of the id list a request carries
SentLength(e) == IF e.kind = "fetchUnsyncedRemoteIDs.exclude" THEN e.exclude ELSE e.include

\* C25: the id list a fetch sends is the shorter of the synced ids (sent as
\* exclude) and the unsynced ids (sent as include), and the include list
\* when the two are equally long.
C25_SmallerListSent ==
    ev.kind \in IdListRequests =>
        /\ SentLength(ev) <= ev.include
        /\ SentLength(ev) <= ev.exclude
        /\ ev.include = ev.exclude => ev.kind = "fetchUnsyncedRemoteIDs.include"

\* C25 witness: both lists non-empty; the exclude list was sent, being shorter
C25_Witness ==
    /\ ev.kind = "fetchUnsyncedRemoteIDs.exclude"
    /\ ev.exclude = 1
    /\ ev.include = 2

\* C26 as stated: a fetch requests by exclude when the synced ids outnumber
\* the unsynced ids, and by include otherwise.
C26_ExcludeWhenSyncedOutnumber ==
    ev.kind \in Requests =>
        IF ev.exclude > ev.include
        THEN ev.kind = "fetchUnsyncedRemoteIDs.exclude"
        ELSE ev.kind = "fetchUnsyncedRemoteIDs.include"

\* C26 amended: with unsynced ids at hand, a fetch requests by exclude
\* exactly when the synced ids are fewer than the unsynced ids, and by
\* include otherwise, also when the synced ids outnumber them.
C26_ExcludeWhenSyncedFewer ==
    (ev.kind \in Requests /\ ev.include > 0) =>
        /\ ev.exclude < ev.include <=> ev.kind = "fetchUnsyncedRemoteIDs.exclude"
        /\ ev.exclude >= ev.include <=> ev.kind = "fetchUnsyncedRemoteIDs.include"

\* C26 witness: the synced ids outnumber the unsynced ids, and the request
\* is by include
C26_Witness ==
    /\ ev.kind = "fetchUnsyncedRemoteIDs.include"
    /\ ev.include = 1
    /\ ev.exclude = 2

\* C27: a fetch sends the modified-after request only when both id sets are
\* empty, and an id list whenever one of them is not.
C27_FallbackOnlyWhenBothEmpty ==
    ev.kind \in Requests =>
        (ev.kind = "fetchLastModified" <=> (ev.include = 0 /\ ev.exclude = 0))

\* C28: the Manager getInstance returns is never canceled.
C28_InstanceNeverCanceled ==
    [][iev'.name = "getInstance" => ~managers'[iev'.ret].m.isCanceled]_vars

\* the replicator is the un-canceled one replicationStates holds under its
\* endpoint
RegisteredAndLive(r) ==
    /\ Get(replicationStates, EndpointOf(r)) = r
    /\ ~replications[r].isCanceled

\* C29: every replicator in activeQueryReplications and in
\* activeCollectionReplications is the un-canceled instance that
\* replicationStates holds under its endpoint.
C29_ActiveReplicationsRegistered ==
    /\ \A k \in DOMAIN activeQueryReplications :
          RegisteredAndLive(activeQueryReplications[k])
    /\ \A k \in DOMAIN activeCollectionReplications :
          RegisteredAndLive(activeCollectionReplications[k])

\* C30: a replicator that leaves replicationStates, removed or overwritten,
\* is canceled, and every replicator not canceled is held by
\* replicationStates.
C30_LeavingReplicationCanceled ==
    /\ [][\A e \in DOMAIN replicationStates :
            Get(replicationStates', e) # replicationStates[e] =>
               \/ replicationStates[e] \notin DOMAIN replications'
               \/ replications'[replicationStates[e]].isCanceled
         ]_vars
    /\ [](\A r \in DOMAIN replications :
            ~replications[r].isCanceled => r \in Values(replicationStates))

\* C31: syncCompleted starts false; it becomes true only in the step in
\* which a fetch cycle receives a list response of length zero; once true it
\* stays true whatever is called; a request that fails or answers without a
\* list leaves it as it was and ends the cycle, and a bulkUpsert is only
\* ever made by a cycle that has its list response.
C31_SyncCompletedLatch ==
    /\ [](ev.kind = "new" => ~replication.syncCompleted)
    /\ [][replication.syncCompleted => replication'.syncCompleted]_vars
    /\ [][(~replication.syncCompleted /\ replication'.syncCompleted) =>
            /\ ev'.kind = "response"
            /\ procs[ev'.proc].pc = "http"
            /\ procs'[ev'.proc].data = 0
         ]_vars
    /\ [][\A p \in Procs :
            (procs[p].pc = "http" /\ ev' = Event("error", p)) =>
               /\ replication'.syncCompleted = replication.syncCompleted
               /\ procs'[p] = IdleProc
         ]_vars
    /\ [][ev'.kind = "bulkUpsert" => procs[ev'.proc].pc = "upsertRefs"]_vars

\* C31 witness: the sync is completed, and a later fetch, finding it so,
\* went on to the collection replicator
C31_Witness ==
    /\ replication.syncCompleted
    /\ ev.kind = "collectionReplication.fetchUnsynced"

\* C32: every key of activeCollectionReplications and of
\* activeQueryReplications is a key of queryStates.
C32_ActiveKeysRegistered ==
    /\ DOMAIN activeCollectionReplications \subseteq DOMAIN queryStates
    /\ DOMAIN activeQueryReplications \subseteq DOMAIN queryStates

\* C32 witness: a parameter change was made on a deregistered Query whose
\* key is not registered, while another query is registered and active
C32_Witness ==
    /\ op.name = "updateParamsDetached"
    /\ ~Has(queryStates, op.key)
    /\ op.rep = None
    /\ DOMAIN activeQueryReplications # {}
    /\ DOMAIN activeQueryReplications = DOMAIN queryStates
====
